---- MODULE Spec2Model ----
(***************************************************************************)
(* A model of the weather model viewer (src/main.py): the forecast-hour    *)
(* and run-time generators, the fetcher thread, the event queue, and the   *)
(* Tk host (WeatherApp) that polls the queue and drives playback.          *)
(*                                                                         *)
(* Python strings that the program formats and parses again (run keys,     *)
(* file names) are sequences of one-character strings, so that formatting  *)
(* and parsing are computed and not assumed.  Dictionary keys that are     *)
(* only looked up (the labels of the option menus) are TLA+ strings.       *)
(***************************************************************************)
EXTENDS Integers, Sequences, FiniteSets, TLC

(***************************************************************************)
(* Bounds of the model.                                                    *)
(***************************************************************************)
\* The fetcher iterates over the first MaxHours forecast hours of the model.
MaxHours == 3
\* The same, for the first fetch of a session taken alone (SpecFetch).
MaxFetchHours == 5
\* The user chooses among the first MaxRunChoices entries of the run menu.
MaxRunChoices == 2
\* generate_forecast_hours is applied to every string of up to MaxModelLen
\* letters of a small alphabet, besides the four configured model codes.
MaxModelLen == 4

(***************************************************************************)
(* Strings.                                                                *)
(***************************************************************************)
DigitChars == <<"0", "1", "2", "3", "4", "5", "6", "7", "8", "9">>

DigitChar(d) == DigitChars[d + 1]

IsDigit(c) == \E d \in 0..9 : DigitChars[d + 1] = c

DigitValue(c) == CHOOSE d \in 0..9 : DigitChars[d + 1] = c

RECURSIVE Decimal(_)
\* str(n) for n >= 0
Decimal(n) == IF n < 10 THEN <<DigitChar(n)>>
              ELSE Decimal(n \div 10) \o <<DigitChar(n % 10)>>

RECURSIVE ZeroPad(_, _)
\* f"{n:0{width}d}": at least width characters, never truncated
ZeroPad(s, width) == IF Len(s) >= width THEN s ELSE ZeroPad(<<"0">> \o s, width)

Format(n, width) == ZeroPad(Decimal(n), width)

AllDigits(s) == Len(s) > 0 /\ \A k \in 1..Len(s) : IsDigit(s[k])

RECURSIVE ParseInt(_)
\* int(s) for a string of decimal digits
ParseInt(s) == IF Len(s) = 0 THEN 0
               ELSE 10 * ParseInt(SubSeq(s, 1, Len(s) - 1)) + DigitValue(s[Len(s)])

RECURSIVE Split(_, _)
\* s.split(sep) for a one-character separator
Split(s, sep) ==
    IF \A k \in 1..Len(s) : s[k] # sep THEN <<s>>
    ELSE LET k == CHOOSE j \in 1..Len(s) :
                      s[j] = sep /\ \A h \in 1..(j - 1) : s[h] # sep
         IN  <<SubSeq(s, 1, k - 1)>> \o Split(SubSeq(s, k + 1, Len(s)), sep)

\* os.path.join(save_dir, name) for a relative name
PathJoin(dir, name) == dir \o <<"/">> \o name

\* os.path.basename(path): what follows the last "/"
Basename(path) ==
    IF \A k \in 1..Len(path) : path[k] # "/" THEN path
    ELSE LET k == CHOOSE j \in 1..Len(path) :
                      path[j] = "/" /\ \A h \in (j + 1)..Len(path) : path[h] # "/"
         IN  SubSeq(path, k + 1, Len(path))

(***************************************************************************)
(* datetime: the proleptic Gregorian calendar of Python's datetime module, *)
(* at the granularity of hours (generate_run_times zeroes minutes, seconds *)
(* and microseconds, and only whole hours are ever added).                 *)
(***************************************************************************)
IsLeap(y) == y % 4 = 0 /\ (y % 100 # 0 \/ y % 400 = 0)

DaysInMonth(y, m) ==
    IF m = 2 THEN (IF IsLeap(y) THEN 29 ELSE 28)
    ELSE IF m \in {4, 6, 9, 11} THEN 30 ELSE 31

RECURSIVE DaysBeforeMonth(_, _)
DaysBeforeMonth(y, m) ==
    IF m = 1 THEN 0 ELSE DaysBeforeMonth(y, m - 1) + DaysInMonth(y, m - 1)

DaysBeforeYear(y) ==
    (y - 1) * 365 + (y - 1) \div 4 - (y - 1) \div 100 + (y - 1) \div 400

\* date.toordinal(): 0001-01-01 is day 1
ToOrdinal(y, m, d) == DaysBeforeYear(y) + DaysBeforeMonth(y, m) + d

\* date.max is 9999-12-31
MaxOrdinal == ToOrdinal(9999, 12, 31)

\* the year of ordinal n (as datetime._ord2ymd computes it)
YearOfOrdinal(n) ==
    LET n0   == n - 1
        n400 == n0 \div 146097
        r400 == n0 % 146097
        n100 == r400 \div 36524
        r100 == r400 % 36524
        n4   == r100 \div 1461
        r4   == r100 % 1461
        n1   == r4 \div 365
        y    == n400 * 400 + n100 * 100 + n4 * 4 + n1 + 1
    IN  IF n1 = 4 \/ n100 = 4 THEN y - 1 ELSE y

FromOrdinal(n) ==
    LET y  == YearOfOrdinal(n)
        dy == n - DaysBeforeYear(y)
        m  == CHOOSE k \in 1..12 :
                  DaysBeforeMonth(y, k) < dy /\ dy <= DaysBeforeMonth(y, k) + DaysInMonth(y, k)
    IN  [year |-> y, month |-> m, day |-> dy - DaysBeforeMonth(y, m)]

DateTime(y, m, d, h) == [year |-> y, month |-> m, day |-> d, hour |-> h]

\* dt + datetime.timedelta(hours=n) raises OverflowError outside year 1..9999
AddHoursRaises(dt, n) ==
    LET total == ToOrdinal(dt.year, dt.month, dt.day) * 24 + dt.hour + n
        ord   == total \div 24
    IN  ord < 1 \/ ord > MaxOrdinal

\* dt + datetime.timedelta(hours=n), where it does not raise
AddHours(dt, n) ==
    LET total == ToOrdinal(dt.year, dt.month, dt.day) * 24 + dt.hour + n
        d     == FromOrdinal(total \div 24)
    IN  DateTime(d.year, d.month, d.day, total % 24)

\* dt.strftime('%Y%m%d%H')
StrfRunKey(dt) ==
    Format(dt.year, 4) \o Format(dt.month, 2) \o Format(dt.day, 2) \o Format(dt.hour, 2)

\* dt.strftime('%Y-%m-%d %HZ')
StrfRunLabel(dt) ==
    Format(dt.year, 4) \o <<"-">> \o Format(dt.month, 2) \o <<"-">>
        \o Format(dt.day, 2) \o <<" ">> \o Format(dt.hour, 2) \o <<"Z">>

\* dt.strftime('%Y-%m-%d %H:%M') followed by "Z" (minutes are always 0)
StrfLabel(dt) ==
    Format(dt.year, 4) \o <<"-">> \o Format(dt.month, 2) \o <<"-">>
        \o Format(dt.day, 2) \o <<" ">> \o Format(dt.hour, 2) \o <<":", "0", "0", "Z">>

\* datetime.datetime.strptime(s, "%Y%m%d%H") of a string of ten digits
StrpRunKey(s) ==
    DateTime(ParseInt(SubSeq(s, 1, 4)), ParseInt(SubSeq(s, 5, 6)),
             ParseInt(SubSeq(s, 7, 8)), ParseInt(SubSeq(s, 9, 10)))

\* strptime(s, "%Y%m%d%H") raises ValueError (or TypeError, for None)
StrpRunKeyRaises(s) ==
    \/ Len(s) # 10
    \/ ~AllDigits(s)
    \/ LET dt == StrpRunKey(s)
       IN  \/ dt.year < 1
           \/ dt.month \notin 1..12
           \/ dt.hour > 23
           \/ dt.day < 1
           \/ dt.day > DaysInMonth(dt.year, dt.month)

(***************************************************************************)
(* Configuration tables of WeatherApp.__init__ (the entries the model      *)
(* uses) and the literals of the file and label formats.                   *)
(***************************************************************************)
S_gfs        == <<"g", "f", "s">>
S_nam        == <<"n", "a", "m">>
S_hrrr       == <<"h", "r", "r", "r">>
S_ecmwf_full == <<"e", "c", "m", "w", "f", "_", "f", "u", "l", "l">>
S_refcmp     == <<"r", "e", "f", "c", "m", "p">>
S_uh03_max   == <<"u", "h", "0", "3", "_", "m", "a", "x">>
S_conus      == <<"c", "o", "n", "u", "s">>
S_us_ne      == <<"u", "s", "_", "n", "e">>
S_png        == <<".", "p", "n", "g">>
S_save_dir   == <<"w", "e", "a", "t", "h", "e", "r", "_", "i", "m", "a", "g", "e", "s">>
S_dashes     == <<"-", "-">>
S_Latest     == <<" ", "(", "L", "a", "t", "e", "s", "t", ")">>

\* self.models
models == [GFS |-> S_gfs, NAM |-> S_nam, HRRR |-> S_hrrr, ECMWF |-> S_ecmwf_full]

\* self.parameters, two of its entries (the default, and one with an underscore)
parameters == [CompositeReflectivity |-> S_refcmp, UpdraftHelicity |-> S_uh03_max]

\* self.regions, two of its entries (the default, and one with an underscore)
regions == [ContinentalUS |-> S_conus, NortheastUS |-> S_us_ne]

(***************************************************************************)
(* generate_forecast_hours and generate_run_times.                         *)
(***************************************************************************)
\* list(range(start, stop, step)) for step > 0
Range(start, stop, step) ==
    [k \in 1..(IF stop > start THEN (stop - start + step - 1) \div step ELSE 0)
        |-> start + (k - 1) * step]

\* a variant of generate_forecast_hours: only gfs has the long schedule
generate_forecast_hours_GfsOnly(model) ==
    IF model = S_gfs THEN Range(0, 241, 3) \o Range(246, 385, 6)
    ELSE IF model = S_nam THEN Range(0, 85, 1)
    ELSE IF model = S_hrrr THEN Range(0, 49, 1)
    ELSE Range(0, 241, 6)

generate_forecast_hours(model) ==
    IF model \in {S_gfs, S_ecmwf_full} THEN Range(0, 241, 3) \o Range(246, 385, 6)
    ELSE IF model = S_nam THEN Range(0, 85, 1)
    ELSE IF model = S_hrrr THEN Range(0, 49, 1)
    ELSE Range(0, 241, 6)

\* d[key] = value on a dict kept as the sequence of its items in insertion order
DictPut(d, key, value) ==
    IF \E k \in 1..Len(d) : d[k].key = key
    THEN [k \in 1..Len(d) |-> IF d[k].key = key THEN [key |-> key, value |-> value] ELSE d[k]]
    ELSE Append(d, [key |-> key, value |-> value])

DictKeys(d) == {d[k].key : k \in 1..Len(d)}

DictGet(d, key) == d[CHOOSE k \in 1..Len(d) : d[k].key = key].value

\* a variant of RunDateTime: the hour is not brought down to a multiple of 6
RunDateTime_NoTruncation(now, i) == AddHours(now, -(i * 6))

\* the run of iteration i of generate_run_times: dt_obj
RunDateTime(now, i) ==
    LET run_time_to_check == AddHours(now, -(i * 6))
        run_hour          == (run_time_to_check.hour \div 6) * 6
    IN  [run_time_to_check EXCEPT !.hour = run_hour]

RECURSIVE RunTimesUpTo(_, _)
\* the dict after iterations 0..(n-1) of the loop
RunTimesUpTo(now, n) ==
    IF n = 0 THEN <<>>
    ELSE LET i            == n - 1
             dt_obj       == RunDateTime(now, i)
             display_text == StrfRunLabel(dt_obj) \o (IF i = 0 THEN S_Latest ELSE <<>>)
             run_time_str == StrfRunKey(dt_obj)
         IN  DictPut(RunTimesUpTo(now, i), display_text, run_time_str)

generate_run_times(now) == RunTimesUpTo(now, 8)

(***************************************************************************)
(* The state.                                                              *)
(***************************************************************************)
VARIABLES
    now_utc,              \* the clock reading of generate_run_times at construction
    run_times,            \* self.run_times
    image_paths,          \* self.image_paths
    current_frame_index,  \* self.current_frame_index
    model_run_time,       \* self.model_run_time (None is the empty string)
    is_playing,           \* self.is_playing
    animation_job,        \* self.animation_job: NoJob or the id of an after job
    fetch_queue,          \* self.fetch_queue: the events put and not yet taken
    model_var,            \* the option menus' variables
    region_var,
    param_var,
    run_time_var,
    fetch_button,         \* state of the fetch button
    controls_state,       \* state of play_button, prev_button, frame_slider, next_button
    progress_bar,         \* progress_bar['value']
    slider_to,            \* the upper end of frame_slider
    image_label,          \* what image_label shows: prompt, wait, image, error
    run_time_label,       \* the text of run_time_label after "Model Run: "
    forecast_hour_label,  \* the text of forecast_hour_label after "Forecast Hour: F"
    valid_time_label,     \* the text of valid_time_label after "Valid Time: "
    after_jobs,           \* Tk's pending after() callbacks
    warning_open,         \* the modal messagebox of handle_fetch_results is open
    thread,               \* the fetcher thread: its position, arguments and locals
    requests_log,         \* history: the GETs of the fetch in flight: the hour, and whether
                          \*   the image arrived (status 200 and the body read)
    emitted,              \* history: the puts of the fetch in flight, in order
    loaded_hours          \* history: the forecast hours the frames of image_paths were requested for

playback == <<image_paths, current_frame_index, model_run_time, is_playing, animation_job>>
labels   == <<image_label, run_time_label, forecast_hour_label, valid_time_label>>
menus    == <<model_var, region_var, param_var, run_time_var>>
widgets  == <<fetch_button, controls_state, progress_bar, slider_to>>
fetcher  == <<thread, requests_log, emitted>>

clock    == <<now_utc, run_times>>

vars == <<clock, playback, labels, menus, widgets, fetch_queue, after_jobs,
          warning_open, fetcher, loaded_hours>>

\* self.animation_job = None
NoJob == 0

\* a rational p/q as <<p, q>>: the progress values (i + 1) / total_images * 100
Ratio(p, q) == <<p, q>>
RatioLeq(a, b) == a[1] * b[2] <= b[1] * a[2]
RatioEq(a, b) == a[1] * b[2] = b[1] * a[2]

\* the clock reading the program starts from: the runs go back over a year's end
Nows == {DateTime(2024, 1, 1, 3)}

\* What the user has set the model, parameter and region menus to before the
\* first fetch: each model, with and without an underscore in the codes after it.
\* The program reads these menus only in start_fetch_thread.
MenuChoices ==
    {<<"GFS", "CompositeReflectivity", "ContinentalUS">>,
     <<"NAM", "UpdraftHelicity", "NortheastUS">>,
     <<"HRRR", "CompositeReflectivity", "NortheastUS">>,
     <<"ECMWF", "UpdraftHelicity", "ContinentalUS">>}

IdleThread ==
    [pc |-> "idle", model |-> <<>>, run_time |-> <<>>, parameter |-> <<>>,
     region |-> <<>>, forecast_hours |-> <<>>, downloaded_paths |-> <<>>,
     total_images |-> 0, consecutive_failures |-> 0, i |-> 0]

\* the thread has returned (line 73): its arguments and locals are gone
ReturnedThread == [IdleThread EXCEPT !.pc = "done"]

Init ==
    /\ now_utc \in Nows
    /\ run_times = generate_run_times(now_utc)
    /\ image_paths = <<>>
    /\ current_frame_index = 0
    /\ model_run_time = <<>>
    /\ is_playing = FALSE
    /\ animation_job = NoJob
    /\ fetch_queue = <<>>
    /\ \E choice \in MenuChoices :
          /\ model_var = choice[1]
          /\ param_var = choice[2]
          /\ region_var = choice[3]
    /\ run_time_var = run_times[1].key
    /\ fetch_button = "normal"
    /\ controls_state = "disabled"
    /\ progress_bar = Ratio(0, 1)
    /\ slider_to = 100
    /\ image_label = "prompt"
    /\ run_time_label = S_dashes
    /\ forecast_hour_label = S_dashes
    /\ valid_time_label = S_dashes
    /\ after_jobs = {}
    /\ warning_open = FALSE
    /\ thread = IdleThread
    /\ requests_log = <<>>
    /\ emitted = <<>>
    /\ loaded_hours = <<>>

(***************************************************************************)
(* threaded_fetch_image_sequence.  The thread takes one step per queue put *)
(* and one per HTTP request; its other statements touch only its locals.   *)
(* Storage (makedirs, open, write) is taken to succeed.                    *)
(***************************************************************************)
\* What one GET can come to:
\*   ok         status 200 and the body read and written (lines 55-59)
\*   not_found  any other status (lines 60-62)
\*   get_error  requests.get raises a RequestException (lines 63-65)
\*   body_error status 200, then reading response.content of the streamed
\*              response raises a RequestException inside the try (lines 56-58, 63-65)
Outcomes == {"ok", "not_found", "get_error", "body_error"}

\* a variant of ProgressValue: the fraction done before this hour, i / total_images * 100
ProgressValue_BeforeThisHour(i, total_images) == Ratio(i * 100, total_images)

\* line 48: (i + 1) / total_images * 100
ProgressValue(i, total_images) == Ratio((i + 1) * 100, total_images)

ProgressEvent(value) == [type |-> "progress", value |-> value]

\* line 72
ResultEvent(run_time, paths) == [type |-> "result", run_time |-> run_time, paths |-> paths]

\* history: a put of the event by the statement at the line, made when the
\* server had answered so many requests of this fetch
Put(event, line) == [event |-> event, line |-> line, requests |-> Len(requests_log)]

\* lines 49 and 51: the file the frame of this hour is written to
FilePath(model, run_time, hour, parameter, region) ==
    LET forecast_hour_str == Format(hour, 3)
    IN  PathJoin(S_save_dir,
                 model \o <<"_">> \o run_time \o <<"_">> \o forecast_hour_str \o <<"_">>
                     \o parameter \o <<"_">> \o region \o S_png)

\* a variant of AfterRequest: the path is appended whatever the status is
AfterRequest_AppendsOnAnyStatus(t, outcome) ==
    LET hour      == t.forecast_hours[t.i + 1]
        file_path == FilePath(t.model, t.run_time, hour, t.parameter, t.region)
    IN  CASE outcome = "ok" ->
                [t EXCEPT !.consecutive_failures = 0,
                          !.downloaded_paths = Append(@, file_path)]
          [] outcome = "not_found" ->
                [t EXCEPT !.consecutive_failures = @ + 1,
                          !.downloaded_paths = Append(@, file_path)]
          [] outcome = "body_error" ->
                [t EXCEPT !.consecutive_failures = 0 + 1]
          [] OTHER ->
                [t EXCEPT !.consecutive_failures = @ + 1]

\* lines 53-65: the locals after the request of the current hour came to outcome
AfterRequest(t, outcome) ==
    LET hour      == t.forecast_hours[t.i + 1]
        file_path == FilePath(t.model, t.run_time, hour, t.parameter, t.region)
    IN  CASE outcome = "ok" ->
                [t EXCEPT !.consecutive_failures = 0,
                          !.downloaded_paths = Append(@, file_path)]
          [] outcome = "body_error" ->
                [t EXCEPT !.consecutive_failures = 0 + 1]
          [] OTHER ->
                [t EXCEPT !.consecutive_failures = @ + 1]

\* line 67
StopRule(t) == t.consecutive_failures >= 3

\* line 47: the for loop goes on to the next hour, or is exhausted
NextIteration(t) ==
    [t EXCEPT !.i = @ + 1,
              !.pc = IF t.i + 1 < t.total_images THEN "loop" ELSE "result"]

\* a variant of Thread_Progress: no progress event while the last request failed
Thread_Progress_SkipsAfterFailure ==
    /\ thread.pc = "loop"
    /\ LET e == ProgressEvent(ProgressValue(thread.i, thread.total_images))
       IN  IF thread.consecutive_failures > 0
           THEN UNCHANGED <<fetch_queue, emitted>>
           ELSE /\ fetch_queue' = Append(fetch_queue, e)
                /\ emitted' = Append(emitted, Put(e, 48))
    /\ thread' = [thread EXCEPT !.pc = "get"]
    /\ UNCHANGED <<clock, playback, labels, menus, widgets, after_jobs,
                   warning_open, requests_log, loaded_hours>>

\* line 48: the progress event of iteration i, put before the request
Thread_Progress ==
    /\ thread.pc = "loop"
    /\ LET e == ProgressEvent(ProgressValue(thread.i, thread.total_images))
       IN  /\ fetch_queue' = Append(fetch_queue, e)
           /\ emitted' = Append(emitted, Put(e, 48))
    /\ thread' = [thread EXCEPT !.pc = "get"]
    /\ UNCHANGED <<clock, playback, labels, menus, widgets, after_jobs,
                   warning_open, requests_log, loaded_hours>>

\* lines 49-67: the request of the current hour and the bookkeeping after it
Thread_Request ==
    /\ thread.pc = "get"
    /\ \E outcome \in Outcomes :
          LET t == AfterRequest(thread, outcome)
          IN  /\ thread' = IF StopRule(t) THEN [t EXCEPT !.pc = "stop"]
                           ELSE NextIteration(t)
              /\ requests_log' = Append(requests_log,
                     [hour |-> thread.forecast_hours[thread.i + 1],
                      ok |-> outcome = "ok"])
    /\ UNCHANGED <<clock, playback, labels, menus, widgets, fetch_queue, after_jobs,
                   warning_open, emitted, loaded_hours>>

\* a variant of Thread_Stop: the stop rule puts the result itself, and line 72 again
Thread_Stop_PutsResult ==
    /\ thread.pc = "stop"
    /\ LET e == ResultEvent(thread.run_time, thread.downloaded_paths)
       IN  /\ fetch_queue' = Append(fetch_queue, e)
           /\ emitted' = Append(emitted, Put(e, 69))
    /\ thread' = [thread EXCEPT !.pc = "result"]
    /\ UNCHANGED <<clock, playback, labels, menus, widgets, after_jobs,
                   warning_open, requests_log, loaded_hours>>

\* lines 68-70: the forced progress event of the stop rule
Thread_Stop ==
    /\ thread.pc = "stop"
    /\ LET e == ProgressEvent(Ratio(100, 1))
       IN  /\ fetch_queue' = Append(fetch_queue, e)
           /\ emitted' = Append(emitted, Put(e, 69))
    /\ thread' = [thread EXCEPT !.pc = "result"]
    /\ UNCHANGED <<clock, playback, labels, menus, widgets, after_jobs,
                   warning_open, requests_log, loaded_hours>>

\* lines 72-73
Thread_Result ==
    /\ thread.pc = "result"
    /\ LET e == ResultEvent(thread.run_time, thread.downloaded_paths)
       IN  /\ fetch_queue' = Append(fetch_queue, e)
           /\ emitted' = Append(emitted, Put(e, 72))
    /\ thread' = ReturnedThread
    /\ UNCHANGED <<clock, playback, labels, menus, widgets, after_jobs,
                   warning_open, requests_log, loaded_hours>>

(***************************************************************************)
(* WeatherApp: the playback methods.  A method that another calls is an    *)
(* operator over the values the caller has already assigned.               *)
(***************************************************************************)
\* lines 243-244: parts
PartsOf(filepath) == Split(Basename(filepath), "_")

\* line 245: hour_str = parts[2]
HourStr(filepath) == PartsOf(filepath)[3]

\* lines 246-247: valid_dt_obj
ValidTimeOf(run_time, filepath) ==
    LET run_dt_obj == StrpRunKey(run_time)
    IN  AddHours(run_dt_obj, ParseInt(HourStr(filepath)))

\* lines 245-247 raise: IndexError (parts[2]), ValueError (strptime, int) or
\* OverflowError (the sum is past year 9999)
DisplayRaises(run_time, filepath) ==
    \/ Len(PartsOf(filepath)) < 3
    \/ StrpRunKeyRaises(run_time)
    \/ ~AllDigits(HourStr(filepath))
    \/ AddHoursRaises(StrpRunKey(run_time), ParseInt(HourStr(filepath)))

\* a variant of display_frame: an index past either end shows the nearest frame
display_frame_Clamps(index, paths, run_time, cur) ==
    IF paths = <<>>
    THEN /\ current_frame_index' = cur
         /\ UNCHANGED labels
    ELSE LET shown == IF index < 0 THEN 0
                      ELSE IF index < Len(paths) THEN index ELSE Len(paths) - 1
             filepath == paths[shown + 1]
         IN  /\ current_frame_index' = shown
             /\ IF DisplayRaises(run_time, filepath)
                THEN /\ image_label' = "error"
                     /\ UNCHANGED <<run_time_label, forecast_hour_label, valid_time_label>>
                ELSE /\ image_label' = "image"
                     /\ run_time_label' = StrfLabel(StrpRunKey(run_time))
                     /\ forecast_hour_label' = HourStr(filepath)
                     /\ valid_time_label' = StrfLabel(ValidTimeOf(run_time, filepath))

\* lines 234-252, called with self.image_paths = paths, self.model_run_time =
\* run_time and self.current_frame_index = cur.  The slider's position (line
\* 237) is not part of the model: setting it re-enters display_frame with the
\* same index at most.  Image.open is taken to succeed on a stored file.
display_frame(index, paths, run_time, cur) ==
    IF paths = <<>> \/ ~(0 <= index /\ index < Len(paths))
    THEN /\ current_frame_index' = cur
         /\ UNCHANGED labels
    ELSE /\ current_frame_index' = index
         /\ LET filepath == paths[index + 1]
            IN  IF DisplayRaises(run_time, filepath)
                THEN /\ image_label' = "error"
                     /\ UNCHANGED <<run_time_label, forecast_hour_label, valid_time_label>>
                ELSE /\ image_label' = "image"
                     /\ run_time_label' = StrfLabel(StrpRunKey(run_time))
                     /\ forecast_hour_label' = HourStr(filepath)
                     /\ valid_time_label' = StrfLabel(ValidTimeOf(run_time, filepath))

\* a variant of next_index: the last frame is the end, no wraparound
next_index_NoWrap(cur, n) == IF cur + 1 < n THEN cur + 1 ELSE cur

\* line 259: new_index of next_frame, with n = len(self.image_paths)
next_index(cur, n) == (cur + 1) % n

\* line 264: new_index of prev_frame
prev_index(cur, n) == (cur - 1 + n) % n

\* lines 257-260
next_frame ==
    IF image_paths = <<>>
    THEN UNCHANGED <<current_frame_index, labels>>
    ELSE LET new_index == next_index(current_frame_index, Len(image_paths))
         IN  display_frame(new_index, image_paths, model_run_time, current_frame_index)

\* lines 262-265
prev_frame ==
    IF image_paths = <<>>
    THEN UNCHANGED <<current_frame_index, labels>>
    ELSE LET new_index == prev_index(current_frame_index, Len(image_paths))
         IN  display_frame(new_index, image_paths, model_run_time, current_frame_index)

\* lines 254-255
on_slider_move(value) ==
    display_frame(value, image_paths, model_run_time, current_frame_index)

JobIds(jobs) == {j.id : j \in jobs}

\* The id self.after returns.  Tk never reuses an id; the model takes the least
\* id that no pending job has and that the program no longer holds (held),
\* which no later after_cancel can tell from a new one.
FreshId(jobs, held) ==
    CHOOSE n \in 1..(Cardinality(jobs) + Cardinality(held) + 1) :
        /\ n \notin JobIds(jobs) \cup held
        /\ \A m \in 1..(n - 1) : m \in JobIds(jobs) \cup held

\* self.after(ms, callback) on the pending jobs
After(jobs, id, callback) == jobs \cup {[id |-> id, callback |-> callback]}

\* self.after_cancel(id)
after_cancel(jobs, id) == {j \in jobs : j.id # id}

\* a variant of animate: the tick advances the frame and schedules no further tick
animate_NoReschedule(jobs) ==
    IF is_playing'
    THEN /\ next_frame
         /\ UNCHANGED animation_job
         /\ after_jobs' = jobs
    ELSE /\ UNCHANGED <<current_frame_index, labels, animation_job>>
         /\ after_jobs' = jobs

\* lines 277-280, with jobs the pending after jobs at the call
animate(jobs) ==
    IF is_playing'
    THEN /\ next_frame
         /\ animation_job' = FreshId(jobs, {})
         /\ after_jobs' = After(jobs, animation_job', "animate")
    ELSE /\ UNCHANGED <<current_frame_index, labels, animation_job>>
         /\ after_jobs' = jobs

\* a variant of toggle_play_pause: pausing leaves the pending tick alone
toggle_play_pause_NoCancel ==
    IF is_playing
    THEN /\ is_playing' = FALSE
         /\ UNCHANGED <<current_frame_index, labels, animation_job, after_jobs>>
    ELSE /\ is_playing' = TRUE
         /\ animate(after_jobs)

\* lines 267-275
toggle_play_pause ==
    IF is_playing
    THEN /\ is_playing' = FALSE
         /\ after_jobs' = IF animation_job # NoJob
                          THEN after_cancel(after_jobs, animation_job)
                          ELSE after_jobs
         /\ UNCHANGED <<current_frame_index, labels, animation_job>>
    ELSE /\ is_playing' = TRUE
         /\ animate(after_jobs)

\* lines 282-284
set_animation_controls_state(state) == controls_state' = state

(***************************************************************************)
(* WeatherApp: fetching.                                                   *)
(***************************************************************************)
\* the forecast hours the thread iterates over (line 42), cut to a bound
ForecastHours(model, max_hours) ==
    LET hours == generate_forecast_hours(model)
    IN  SubSeq(hours, 1, IF Len(hours) < max_hours THEN Len(hours) ELSE max_hours)

\* lines 195-202 and 39-45: the thread, started, before its first iteration
StartedThread(model, run_time, parameter, region, max_hours) ==
    LET forecast_hours == ForecastHours(model, max_hours)
    IN  [pc |-> IF Len(forecast_hours) = 0 THEN "result" ELSE "loop",
         model |-> model, run_time |-> run_time, parameter |-> parameter,
         region |-> region, forecast_hours |-> forecast_hours,
         downloaded_paths |-> <<>>, total_images |-> Len(forecast_hours),
         consecutive_failures |-> 0, i |-> 0]

\* a variant of start_fetch_thread: the fetch button stays as it is
start_fetch_thread_LeavesButton ==
    /\ UNCHANGED fetch_button
    /\ progress_bar' = Ratio(0, 1)
    /\ set_animation_controls_state("disabled")
    /\ image_label' = "wait"
    /\ LET model_code    == models[model_var]
           run_time_code == DictGet(run_times, run_time_var)
       IN  thread' = StartedThread(model_code, run_time_code, parameters[param_var],
                                   regions[region_var], MaxHours)
    /\ after_jobs' = After(after_jobs, FreshId(after_jobs, {animation_job}), "process_queue")
    /\ requests_log' = <<>>
    /\ emitted' = <<>>
    /\ UNCHANGED <<clock, playback, menus, slider_to, run_time_label,
                   forecast_hour_label, valid_time_label, fetch_queue,
                   warning_open, loaded_hours>>

\* lines 183-203
start_fetch_thread ==
    /\ fetch_button' = "disabled"
    /\ progress_bar' = Ratio(0, 1)
    /\ set_animation_controls_state("disabled")
    /\ image_label' = "wait"
    /\ LET model_code    == models[model_var]
           run_time_code == DictGet(run_times, run_time_var)
       IN  thread' = StartedThread(model_code, run_time_code, parameters[param_var],
                                   regions[region_var], MaxHours)
    /\ after_jobs' = After(after_jobs, FreshId(after_jobs, {animation_job}), "process_queue")
    /\ requests_log' = <<>>
    /\ emitted' = <<>>
    /\ UNCHANGED <<clock, playback, menus, slider_to, run_time_label,
                   forecast_hour_label, valid_time_label, fetch_queue,
                   warning_open, loaded_hours>>

\* the forecast hours of the requests of a log that came to a frame
OkHours(log) ==
    LET ok == SelectSeq(log, LAMBDA r : r.ok)
    IN  [k \in 1..Len(ok) |-> ok[k].hour]

\* a variant of handle_fetch_results: the new list is loaded at the index the
\* old one was at
handle_fetch_results_KeepsIndex(run_time, paths) ==
    /\ progress_bar' = Ratio(0, 1)
    /\ IF paths # <<>>
       THEN /\ model_run_time' = run_time
            /\ image_paths' = paths
            /\ slider_to' = Len(paths) - 1
            /\ UNCHANGED <<current_frame_index, labels>>
            /\ set_animation_controls_state("normal")
            /\ fetch_button' = "normal"
            /\ UNCHANGED warning_open
       ELSE /\ warning_open' = TRUE
            /\ UNCHANGED <<model_run_time, image_paths, slider_to, current_frame_index,
                           labels, controls_state, fetch_button>>

\* a variant of handle_fetch_results: the run time is read from the run menu
handle_fetch_results_RunFromMenu(run_time, paths) ==
    /\ progress_bar' = Ratio(0, 1)
    /\ IF paths # <<>>
       THEN /\ model_run_time' = DictGet(run_times, run_time_var)
            /\ image_paths' = paths
            /\ slider_to' = Len(paths) - 1
            /\ display_frame(0, paths, model_run_time', -1)
            /\ set_animation_controls_state("normal")
            /\ fetch_button' = "normal"
            /\ UNCHANGED warning_open
       ELSE /\ warning_open' = TRUE
            /\ UNCHANGED <<model_run_time, image_paths, slider_to, current_frame_index,
                           labels, controls_state, fetch_button>>

\* lines 217-232 up to the messagebox (line 229), which is modal and returns
\* only when the user dismisses it; with paths, the whole method
handle_fetch_results(run_time, paths) ==
    /\ progress_bar' = Ratio(0, 1)
    /\ IF paths # <<>>
       THEN /\ model_run_time' = run_time
            /\ image_paths' = paths
            /\ slider_to' = Len(paths) - 1
            /\ display_frame(0, paths, run_time, -1)
            /\ set_animation_controls_state("normal")
            /\ fetch_button' = "normal"
            /\ UNCHANGED warning_open
       ELSE /\ warning_open' = TRUE
            /\ UNCHANGED <<model_run_time, image_paths, slider_to, current_frame_index,
                           labels, controls_state, fetch_button>>

\* lines 230-232: the messagebox is dismissed and handle_fetch_results returns
DismissWarning ==
    /\ warning_open
    /\ warning_open' = FALSE
    /\ image_label' = "prompt"
    /\ fetch_button' = "normal"
    /\ UNCHANGED <<clock, playback, menus, controls_state, progress_bar, slider_to,
                   run_time_label, forecast_hour_label, valid_time_label,
                   fetch_queue, after_jobs, fetcher, loaded_hours>>

\* a variant of process_queue: no further poll after a progress event
process_queue_StopsAfterProgress(jobs) ==
    LET again == After(jobs, FreshId(jobs, {animation_job}), "process_queue")
    IN  IF fetch_queue = <<>>
        THEN /\ after_jobs' = again
             /\ UNCHANGED <<image_paths, current_frame_index, model_run_time, labels,
                            widgets, fetch_queue, warning_open, loaded_hours,
                            requests_log, emitted>>
        ELSE LET message == Head(fetch_queue)
             IN  /\ fetch_queue' = Tail(fetch_queue)
                 /\ IF message.type = "progress"
                    THEN /\ progress_bar' = message.value
                         /\ after_jobs' = jobs
                         /\ UNCHANGED <<image_paths, current_frame_index, model_run_time,
                                        labels, fetch_button, controls_state, slider_to,
                                        warning_open, loaded_hours, requests_log, emitted>>
                    ELSE /\ handle_fetch_results(message.run_time, message.paths)
                         /\ after_jobs' = jobs
                         /\ loaded_hours' = IF message.paths # <<>>
                                            THEN OkHours(requests_log) ELSE loaded_hours
                         /\ requests_log' = <<>>
                         /\ emitted' = <<>>

\* lines 205-215, with jobs the pending after jobs once this one has fired
process_queue(jobs) ==
    LET again == After(jobs, FreshId(jobs, {animation_job}), "process_queue")
    IN  IF fetch_queue = <<>>
        THEN /\ after_jobs' = again
             /\ UNCHANGED <<image_paths, current_frame_index, model_run_time, labels,
                            widgets, fetch_queue, warning_open, loaded_hours,
                            requests_log, emitted>>
        ELSE LET message == Head(fetch_queue)
             IN  /\ fetch_queue' = Tail(fetch_queue)
                 /\ IF message.type = "progress"
                    THEN /\ progress_bar' = message.value
                         /\ after_jobs' = again
                         /\ UNCHANGED <<image_paths, current_frame_index, model_run_time,
                                        labels, fetch_button, controls_state, slider_to,
                                        warning_open, loaded_hours, requests_log, emitted>>
                    ELSE /\ handle_fetch_results(message.run_time, message.paths)
                         /\ after_jobs' = jobs
                         \* the fetch is over: its history ends here
                         /\ loaded_hours' = IF message.paths # <<>>
                                            THEN OkHours(requests_log) ELSE loaded_hours
                         /\ requests_log' = <<>>
                         /\ emitted' = <<>>

(***************************************************************************)
(* The events of the Tk main loop: timers and the user.  While the modal   *)
(* messagebox is open the main window takes no input; timers still fire.   *)
(***************************************************************************)
Timer_process_queue ==
    /\ \E job \in after_jobs :
          /\ job.callback = "process_queue"
          /\ process_queue(after_jobs \ {job})
    /\ UNCHANGED <<clock, is_playing, animation_job, menus, thread>>

Timer_animate ==
    /\ \E job \in after_jobs :
          /\ job.callback = "animate"
          /\ UNCHANGED is_playing
          /\ animate(after_jobs \ {job})
    /\ UNCHANGED <<clock, image_paths, model_run_time, menus, widgets, fetch_queue,
                   warning_open, fetcher, loaded_hours>>

Click_fetch ==
    /\ ~warning_open
    /\ fetch_button = "normal"
    /\ start_fetch_thread

Click_play ==
    /\ ~warning_open
    /\ controls_state = "normal"
    /\ toggle_play_pause
    /\ UNCHANGED <<clock, image_paths, model_run_time, menus, widgets, fetch_queue,
                   warning_open, fetcher, loaded_hours>>

Click_next ==
    /\ ~warning_open
    /\ controls_state = "normal"
    /\ next_frame
    /\ UNCHANGED <<clock, image_paths, model_run_time, is_playing, animation_job, menus,
                   widgets, fetch_queue, after_jobs, warning_open, fetcher, loaded_hours>>

Click_prev ==
    /\ ~warning_open
    /\ controls_state = "normal"
    /\ prev_frame
    /\ UNCHANGED <<clock, image_paths, model_run_time, is_playing, animation_job, menus,
                   widgets, fetch_queue, after_jobs, warning_open, fetcher, loaded_hours>>

Move_slider ==
    /\ ~warning_open
    /\ controls_state = "normal"
    /\ \E value \in 0..slider_to : on_slider_move(value)
    /\ UNCHANGED <<clock, image_paths, model_run_time, is_playing, animation_job, menus,
                   widgets, fetch_queue, after_jobs, warning_open, fetcher, loaded_hours>>

\* the entries of the run menu the user chooses among
RunChoices ==
    {run_times[k].key :
        k \in 1..(IF Len(run_times) < MaxRunChoices THEN Len(run_times) ELSE MaxRunChoices)}

Select_run_time ==
    /\ ~warning_open
    /\ \E r \in RunChoices : r # run_time_var /\ run_time_var' = r
    /\ UNCHANGED <<clock, playback, labels, model_var, region_var, param_var, widgets,
                   fetch_queue, after_jobs, warning_open, fetcher, loaded_hours>>

Next ==
    \/ Thread_Progress
    \/ Thread_Request
    \/ Thread_Stop
    \/ Thread_Result
    \/ Timer_process_queue
    \/ Timer_animate
    \/ DismissWarning
    \/ Click_fetch
    \/ Click_play
    \/ Click_next
    \/ Click_prev
    \/ Move_slider
    \/ Select_run_time

Spec == Init /\ [][Next]_vars

(***************************************************************************)
(* The first fetch of a session taken alone, over more forecast hours: the *)
(* state right after the first click on the fetch button, then the thread  *)
(* and the host's polling until the result is handled.                     *)
(***************************************************************************)
InitFetch ==
    /\ now_utc \in Nows
    /\ run_times = generate_run_times(now_utc)
    /\ image_paths = <<>>
    /\ current_frame_index = 0
    /\ model_run_time = <<>>
    /\ is_playing = FALSE
    /\ animation_job = NoJob
    /\ fetch_queue = <<>>
    /\ \E choice \in MenuChoices :
          /\ model_var = choice[1]
          /\ param_var = choice[2]
          /\ region_var = choice[3]
    /\ run_time_var = run_times[1].key
    /\ fetch_button = "disabled"
    /\ controls_state = "disabled"
    /\ progress_bar = Ratio(0, 1)
    /\ slider_to = 100
    /\ image_label = "wait"
    /\ run_time_label = S_dashes
    /\ forecast_hour_label = S_dashes
    /\ valid_time_label = S_dashes
    /\ after_jobs = After({}, FreshId({}, {NoJob}), "process_queue")
    /\ warning_open = FALSE
    /\ thread = StartedThread(models[model_var], DictGet(run_times, run_time_var),
                              parameters[param_var], regions[region_var], MaxFetchHours)
    /\ requests_log = <<>>
    /\ emitted = <<>>
    /\ loaded_hours = <<>>

NextFetch ==
    \/ Thread_Progress
    \/ Thread_Request
    \/ Thread_Stop
    \/ Thread_Result
    \/ Timer_process_queue
    \/ DismissWarning
    \/ Select_run_time

SpecFetch == InitFetch /\ [][NextFetch]_vars

(***************************************************************************)
(* The playback controller called directly, as a test or another caller of *)
(* WeatherApp's methods would: the widgets' states guard nothing here.     *)
(***************************************************************************)
\* the paths a fetch of the model's first MaxHours hours can come to
RECURSIVE SubSeqs(_)
SubSeqs(q) ==
    IF q = <<>> THEN {<<>>}
    ELSE LET rest == SubSeqs(Tail(q))
         IN  rest \cup {<<Head(q)>> \o r : r \in rest}

PathsOf(model, run_time, hours, parameter, region) ==
    [k \in 1..Len(hours) |-> FilePath(model, run_time, hours[k], parameter, region)]

Call_handle_fetch_results ==
    /\ ~warning_open
    /\ \E r \in RunChoices, hours \in SubSeqs(ForecastHours(models[model_var], MaxHours)) :
          LET run_time == DictGet(run_times, r)
          IN  /\ handle_fetch_results(run_time,
                     PathsOf(models[model_var], run_time, hours,
                             parameters[param_var], regions[region_var]))
              /\ loaded_hours' = IF hours # <<>> THEN hours ELSE loaded_hours
    /\ UNCHANGED <<clock, is_playing, animation_job, menus, fetch_queue, after_jobs, fetcher>>

Call_toggle_play_pause ==
    /\ toggle_play_pause
    /\ UNCHANGED <<clock, image_paths, model_run_time, menus, widgets, fetch_queue,
                   warning_open, fetcher, loaded_hours>>

Call_next_frame ==
    /\ next_frame
    /\ UNCHANGED <<clock, image_paths, model_run_time, is_playing, animation_job, menus,
                   widgets, fetch_queue, after_jobs, warning_open, fetcher, loaded_hours>>

Call_prev_frame ==
    /\ prev_frame
    /\ UNCHANGED <<clock, image_paths, model_run_time, is_playing, animation_job, menus,
                   widgets, fetch_queue, after_jobs, warning_open, fetcher, loaded_hours>>

Call_display_frame ==
    /\ \E index \in (-1)..MaxHours :
          display_frame(index, image_paths, model_run_time, current_frame_index)
    /\ UNCHANGED <<clock, image_paths, model_run_time, is_playing, animation_job, menus,
                   widgets, fetch_queue, after_jobs, warning_open, fetcher, loaded_hours>>

NextAPI ==
    \/ Call_handle_fetch_results
    \/ DismissWarning
    \/ Call_toggle_play_pause
    \/ Call_next_frame
    \/ Call_prev_frame
    \/ Call_display_frame
    \/ Timer_animate

SpecAPI == Init /\ [][NextAPI]_vars

(***************************************************************************)
(* Properties of the fetcher, checked on SpecFetch.                        *)
(***************************************************************************)
\* the forecast hours of the fetch of SpecFetch, and the run key it was given
FetchedHours == ForecastHours(models[model_var], MaxFetchHours)
GivenRunKey  == run_times[1].value

\* the paths of the frames of the hours, as the fetcher names them
FramesOf(hours) ==
    PathsOf(models[model_var], GivenRunKey, hours, parameters[param_var], regions[region_var])

RECURSIVE TrailingFailures(_)
\* how many requests at the end of the log failed one after the other
TrailingFailures(log) ==
    IF log = <<>> \/ log[Len(log)].ok THEN 0
    ELSE 1 + TrailingFailures(SubSeq(log, 1, Len(log) - 1))

ResultPuts == {k \in 1..Len(emitted) : emitted[k].event.type = "result"}

ProgressPuts == {k \in 1..Len(emitted) : emitted[k].event.type = "progress"}

\* the host has not yet taken the result of the fetch: it still polls
Polling == \E job \in after_jobs : job.callback = "process_queue"

\* C1: the hours are requested in list order, each at most once; no request is
\* issued once three requests in a row have failed; and the fetcher stops before
\* the end of the list only then.  (A request fails when it brings no frame: a
\* status other than 200, or a network exception.)
C1_StopsExactlyAtThreeConsecutiveFailures ==
    /\ Len(requests_log) <= Len(FetchedHours)
    /\ \A k \in 1..Len(requests_log) : requests_log[k].hour = FetchedHours[k]
    /\ thread.pc \in {"loop", "get"} => TrailingFailures(requests_log) < 3
    /\ thread.pc \in {"stop", "result"} =>
           \/ Len(requests_log) = Len(FetchedHours)
           \/ TrailingFailures(requests_log) = 3

\* C2: the frame list, while it is built and in the result event, holds the
\* frames of exactly the hours whose request succeeded, in the order of the
\* requests, which is strictly increasing in the forecast hour.
C2_FramesAreExactlyTheSuccessfulHours ==
    LET hours == OkHours(requests_log)
    IN  /\ \A j, k \in 1..Len(hours) : j < k => hours[j] < hours[k]
        /\ thread.pc \in {"loop", "get", "stop", "result"} =>
               thread.downloaded_paths = FramesOf(hours)
        /\ \A k \in ResultPuts : emitted[k].event.paths = FramesOf(hours)

C2_Witness ==
    /\ \E k \in ResultPuts : Len(emitted[k].event.paths) >= 2
    /\ \E j, k \in 1..Len(requests_log) :
          j < k /\ ~requests_log[j].ok /\ requests_log[k].ok

\* C3: a fetch puts at most one result event, as its last put, with the run key
\* it was given; and once the thread has returned, the result event has been put.
C3_OneResultEventLast ==
    /\ Cardinality(ResultPuts) <= 1
    /\ ResultPuts \subseteq {Len(emitted)}
    /\ \A k \in ResultPuts : emitted[k].event.run_time = GivenRunKey
    /\ thread.pc = "done" /\ Polling =>
           /\ ResultPuts # {}
           /\ fetch_queue # <<>>
           /\ fetch_queue[Len(fetch_queue)] = emitted[Len(emitted)].event

C3_Witness ==
    /\ thread.pc = "done"
    /\ ResultPuts # {}
    /\ \E k \in 1..Len(emitted) : emitted[k].line = 69
    /\ run_time_var # run_times[1].key

\* C4: the progress values a fetch puts never decrease, and the put before the
\* result event is a progress event of value 100.
C4_ProgressNeverDecreasesAndEndsAt100 ==
    /\ \A j, k \in ProgressPuts :
          j < k => RatioLeq(emitted[j].event.value, emitted[k].event.value)
    /\ \A k \in ResultPuts :
          /\ k - 1 \in ProgressPuts
          /\ RatioEq(emitted[k - 1].event.value, Ratio(100, 1))

\* the stop rule fired on the last hour of the list
C4_Witness ==
    /\ ResultPuts # {}
    /\ Len(requests_log) = Len(FetchedHours)
    /\ \E k \in 1..Len(emitted) : emitted[k].line = 69

\* C5 as stated: the progress event of the hour at index i, of value
\* (i + 1) / N * 100, is put when the request of that hour has been answered.
C5_ProgressAfterTheAttempt ==
    \A k \in 1..Len(emitted) :
        emitted[k].line = 48 =>
            /\ RatioEq(emitted[k].event.value, Ratio(k * 100, Len(FetchedHours)))
            /\ emitted[k].requests >= k

\* C5 as amended: the progress event of the hour at index i, of value
\* (i + 1) / N * 100, is put before the request of that hour is issued, when
\* only the requests of the hours before it have been answered; every hour that
\* is attempted has its progress event, whatever the requests came to.
C5_ProgressBeforeTheAttempt ==
    /\ \A k \in 1..Len(emitted) :
          emitted[k].line = 48 =>
              /\ RatioEq(emitted[k].event.value, Ratio(k * 100, Len(FetchedHours)))
              /\ emitted[k].requests = k - 1
    /\ \A k \in 1..Len(requests_log) :
          k <= Len(emitted) /\ emitted[k].line = 48

C5_Witness ==
    /\ thread.pc = "get"
    /\ \E j, k \in 1..Len(requests_log) : requests_log[j].ok /\ ~requests_log[k].ok
    /\ Len(emitted) = Len(requests_log) + 1

(***************************************************************************)
(* Properties of the host and of playback.                                 *)
(***************************************************************************)
\* the host takes a result event with frames off the queue
TakesResultWithFrames ==
    /\ fetch_queue # <<>>
    /\ Head(fetch_queue).type = "result"
    /\ Head(fetch_queue).paths # <<>>
    /\ fetch_queue' = Tail(fetch_queue)

AnimateJobs(jobs) == {job \in jobs : job.callback = "animate"}

\* C6: handling a result event with frames leaves the controller loaded and
\* paused: the new list loaded, at index 0, not playing.
C6_LoadEndsPausedAtZero ==
    [][TakesResultWithFrames =>
          /\ image_paths' = Head(fetch_queue).paths
          /\ current_frame_index' = 0
          /\ ~is_playing']_vars

\* C7: when an empty result event has been handled (its warning dismissed), no
\* sequence is loaded.
C7_EmptyResultEndsEmpty ==
    [][warning_open /\ ~warning_open' => image_paths' = <<>>]_vars

\* the run of the loaded sequence, as generate_run_times computed it
LoadedRun ==
    LET j == CHOOSE k \in 1..Len(run_times) : run_times[k].value = model_run_time
    IN  RunDateTime(now_utc, j - 1)

\* C8: for every frame of the loaded sequence, display_frame derives from the
\* file name the forecast hour the frame was requested for, and computes as
\* valid time the run time plus that many hours.
C8_DerivedHourAndValidTime ==
    \A k \in 1..Len(image_paths) :
        /\ ~DisplayRaises(model_run_time, image_paths[k])
        /\ ParseInt(HourStr(image_paths[k])) = loaded_hours[k]
        /\ ValidTimeOf(model_run_time, image_paths[k]) = AddHours(LoadedRun, loaded_hours[k])

\* C9: while the controller is paused no animation tick is pending: pausing
\* cancels the tick, so none fires before the next play.
C9_NoTickPendingWhilePaused ==
    ~is_playing => AnimateJobs(after_jobs) = {}

\* paused after playing, a sequence loaded
C9_Witness ==
    /\ ~is_playing
    /\ animation_job # NoJob
    /\ image_paths # <<>>
    /\ controls_state = "normal"

\* C10: from a controller with no sequence loaded that is not playing, no call
\* starts playing or schedules a tick: play is a no-op.
C10_PlayOnEmptyIsNoOp ==
    [][image_paths = <<>> /\ ~is_playing =>
          ~is_playing' /\ AnimateJobs(after_jobs') = {}]_vars

RECURSIVE NextTimes(_, _, _)
\* the index after k calls of next_frame from index i on n frames
NextTimes(k, i, n) == IF k = 0 THEN i ELSE NextTimes(k - 1, next_index(i, n), n)

\* C11: on a loaded sequence of n frames a call of next_frame, from the button
\* or from an animation tick, paused or playing, takes the index i to
\* (i + 1) mod n and a call of prev_frame takes it to (i - 1) mod n; from the
\* current index n calls of next_frame come back to it, prev_frame after
\* next_frame restores it, and prev_frame from 0 gives n - 1.
C11_NextPrevWrapAround ==
    [][image_paths # <<>> =>
          LET n == Len(image_paths)
              i == current_frame_index
          IN  /\ Click_next \/ (Timer_animate /\ is_playing) =>
                     current_frame_index' = IF i = n - 1 THEN 0 ELSE i + 1
              /\ Click_prev =>
                     current_frame_index' = IF i = 0 THEN n - 1 ELSE i - 1
              /\ NextTimes(n, i, n) = i
              /\ prev_index(next_index(i, n), n) = i
              /\ prev_index(0, n) = n - 1]_vars

\* next_frame has wrapped around while playing, on three frames
C11_Witness ==
    /\ Len(image_paths) = 3
    /\ is_playing
    /\ current_frame_index = 0
    /\ forecast_hour_label = HourStr(image_paths[1])
    /\ controls_state = "normal"
    /\ fetch_button = "normal"

\* display_frame(index) is what the step did, and nothing else happened
SeekCalled(index) ==
    /\ display_frame(index, image_paths, model_run_time, current_frame_index)
    /\ UNCHANGED <<clock, image_paths, model_run_time, is_playing, animation_job, menus,
                   widgets, fetch_queue, after_jobs, warning_open, fetcher, loaded_hours>>

\* C12: display_frame(index) sets the current index to index when
\* 0 <= index < len(image_paths); for any other index, and when nothing is
\* loaded, it changes nothing, and neither do next_frame and prev_frame when
\* nothing is loaded.
C12_SeekInRangeOrNothing ==
    [][/\ \A index \in (-1)..MaxHours :
             SeekCalled(index) =>
                 IF 0 <= index /\ index < Len(image_paths)
                 THEN /\ current_frame_index' = index
                      /\ UNCHANGED <<image_paths, model_run_time, is_playing>>
                 ELSE UNCHANGED vars
       /\ image_paths = <<>> /\ (Call_next_frame \/ Call_prev_frame) => UNCHANGED vars]_vars

\* on three frames, never played: the index is 1 after a seek (or a step)
C12_Witness ==
    /\ Len(image_paths) = 3
    /\ current_frame_index = 1
    /\ ~is_playing
    /\ animation_job = NoJob
    /\ forecast_hour_label = HourStr(image_paths[2])

\* C13: whenever a sequence is loaded the current index is one of its frames:
\* 0 <= current_frame_index <= len(image_paths) - 1.
C13_IndexWithinLoadedSequence ==
    image_paths # <<>> =>
        0 <= current_frame_index /\ current_frame_index <= Len(image_paths) - 1

\* three frames loaded and the last one shown, while the result of the next
\* fetch, a single frame, waits at the head of the queue
C13_Witness ==
    /\ Len(image_paths) = 3
    /\ current_frame_index = 2
    /\ fetch_queue # <<>>
    /\ Head(fetch_queue).type = "result"
    /\ Len(Head(fetch_queue).paths) = 1

PollJobs(jobs) == {job \in jobs : job.callback = "process_queue"}

\* the fetcher thread is running
ThreadRunning == thread.pc \notin {"idle", "done"}

\* the events the current fetch has put, in order
EmittedEvents == [k \in 1..Len(emitted) |-> emitted[k].event]

\* q is what is left of p once some events were taken from its head
IsSuffix(q, p) ==
    /\ Len(q) <= Len(p)
    /\ q = SubSeq(p, Len(p) - Len(q) + 1, Len(p))

\* C14: at most one fetch is in flight.  While the fetch button is enabled no
\* fetcher thread runs, no polling is scheduled and no event waits on the
\* queue; there is never more than one polling job; and the events on the queue
\* are events of the one fetch in flight, in the order it put them.
C14_AtMostOneFetchInFlight ==
    /\ Cardinality(PollJobs(after_jobs)) <= 1
    /\ fetch_button = "normal" =>
           /\ ~ThreadRunning
           /\ PollJobs(after_jobs) = {}
           /\ fetch_queue = <<>>
           /\ ~warning_open
    /\ ThreadRunning \/ fetch_queue # <<>> => PollJobs(after_jobs) # {}
    /\ IsSuffix(fetch_queue, EmittedEvents)

\* a later fetch in flight, a sequence of an earlier fetch loaded, events of the
\* fetch waiting while its thread is about to request
C14_Witness ==
    /\ image_paths # <<>>
    /\ thread.pc = "get"
    /\ Len(fetch_queue) >= 2
    /\ fetch_button = "disabled"

(***************************************************************************)
(* Termination of a fetch.  The operating system schedules the fetcher     *)
(* thread, each of whose requests returns, and Tk fires a pending          *)
(* after(100, process_queue) timer: both are weakly fair.  Nothing makes   *)
(* the user act: clicks, menu choices, and the dismissal of the warning    *)
(* are not fair.                                                           *)
(***************************************************************************)
ThreadStep == Thread_Progress \/ Thread_Request \/ Thread_Stop \/ Thread_Result

\* a poll is pending and has an event to take: process_queue then changes the state
PollReady == PollJobs(after_jobs) # {} /\ fetch_queue # <<>>

\* Weak fairness of the poll timer, with the condition under which a poll is
\* due written as the state predicate PollReady: a poll that is due from some
\* point on is taken again and again.  (PollReady implies that
\* <<Timer_process_queue>>_vars is enabled, so this asks no more of Tk than
\* WF_vars(Timer_process_queue) does.)
PollFairness == []<>(~PollReady) \/ []<><<Timer_process_queue>>_vars

SpecLive ==
    /\ Init
    /\ [][Next]_vars
    /\ WF_vars(ThreadStep)
    /\ PollFairness

\* a fetch was started and its result is not handled yet
FetchInFlight == fetch_button = "disabled" /\ ~warning_open

\* C15, as claimed: every started fetch ends with the polling stopped and the
\* fetch button enabled again, whatever its result.
C15_FetchEndsWithTriggerEnabled ==
    FetchInFlight ~> (PollJobs(after_jobs) = {} /\ fetch_button = "normal")

\* C15, amended: every started fetch ends with its result taken and the polling
\* stopped; then the fetch button is enabled again if the result had frames,
\* and if it had none the warning is open and the button stays disabled until
\* the user dismisses it.
C15_FetchEndsHandled ==
    /\ FetchInFlight ~>
           /\ PollJobs(after_jobs) = {}
           /\ ~ThreadRunning
           /\ fetch_queue = <<>>
           /\ fetch_button = "normal" \/ warning_open
    /\ [](warning_open => fetch_button = "disabled" /\ ENABLED DismissWarning)

\* a fetch has ended by its stop rule with no frame and the warning is open,
\* after an earlier fetch that loaded frames
C15_Witness ==
    /\ warning_open
    /\ image_paths # <<>>
    /\ PollJobs(after_jobs) = {}
    /\ fetch_button = "disabled"

(***************************************************************************)
(* generate_forecast_hours applied to model strings: the fetcher thread at *)
(* line 44, with the whole list.                                           *)
(***************************************************************************)
ModelAlphabet == {"g", "f", "s"}

ModelInputs ==
    {S_gfs, S_nam, S_hrrr, S_ecmwf_full, <<"G", "F", "S">>, <<"i", "c", "o", "n">>}
        \cup UNION {[1..k -> ModelAlphabet] : k \in 0..MaxModelLen}

Call_generate_forecast_hours ==
    /\ \E model \in ModelInputs :
          thread' = StartedThread(model, DictGet(run_times, run_time_var),
                                  parameters[param_var], regions[region_var],
                                  Len(generate_forecast_hours(model)))
    /\ UNCHANGED <<clock, playback, labels, menus, widgets, fetch_queue, after_jobs,
                   warning_open, requests_log, emitted, loaded_hours>>

NextHours == Call_generate_forecast_hours

SpecHours == Init /\ [][NextHours]_vars

\* the list start, start + step, ..., last
IsProgression(hours, start, step, last) ==
    /\ Len(hours) = (last - start) \div step + 1
    /\ \A k \in 1..Len(hours) : hours[k] = start + (k - 1) * step
    /\ hours[Len(hours)] = last

\* C16: generate_forecast_hours returns 0, 3, ..., 240 followed by 246, 252,
\* ..., 384 for gfs and ecmwf_full, 0..84 for nam, 0..48 for hrrr and 0, 6,
\* ..., 240 for any other string; the list is never empty and strictly increases.
C16_ForecastHoursPerModel ==
    thread.pc # "idle" =>
        LET hours == thread.forecast_hours
            model == thread.model
        IN  /\ hours # <<>>
            /\ \A j, k \in 1..Len(hours) : j < k => hours[j] < hours[k]
            /\ model \in {<<"g", "f", "s">>, <<"e", "c", "m", "w", "f", "_", "f", "u", "l", "l">>} =>
                   /\ Len(hours) = 105
                   /\ IsProgression(SubSeq(hours, 1, 81), 0, 3, 240)
                   /\ IsProgression(SubSeq(hours, 82, 105), 246, 6, 384)
            /\ model = <<"n", "a", "m">> => IsProgression(hours, 0, 1, 84)
            /\ model = <<"h", "r", "r", "r">> => IsProgression(hours, 0, 1, 48)
            /\ model \notin {<<"g", "f", "s">>, <<"n", "a", "m">>, <<"h", "r", "r", "r">>,
                            <<"e", "c", "m", "w", "f", "_", "f", "u", "l", "l">>} =>
                   IsProgression(hours, 0, 6, 240)

\* the list of ecmwf_full, which goes on in steps of 6 after hour 240
C16_Witness ==
    /\ thread.model = S_ecmwf_full
    /\ Len(thread.forecast_hours) = 105
    /\ thread.forecast_hours[81] = 240
    /\ thread.forecast_hours[82] = 246

(***************************************************************************)
(* generate_run_times applied to clock readings: WeatherApp.__init__ at    *)
(* line 129, before and after the call.  Minutes and seconds of the clock  *)
(* are discarded by line 28 and are not part of a reading.                 *)
(***************************************************************************)
ClockYears == {2023, 2024, 2025}
ClockDays  == {1, 2, 28, 29, 30, 31}

\* the readings datetime.utcnow() is taken to give: every hour of the first
\* and last days of every month of three years, one of them a leap year
ClockReadings ==
    {DateTime(y, m, d, h) : y \in ClockYears, m \in 1..12,
                            d \in ClockDays, h \in 0..23}

ValidReadings == {dt \in ClockReadings : dt.day <= DaysInMonth(dt.year, dt.month)}

InitRunTimes ==
    /\ now_utc \in ValidReadings
    /\ run_times = <<>>
    /\ image_paths = <<>>
    /\ current_frame_index = 0
    /\ model_run_time = <<>>
    /\ is_playing = FALSE
    /\ animation_job = NoJob
    /\ fetch_queue = <<>>
    /\ model_var = "GFS"
    /\ region_var = "ContinentalUS"
    /\ param_var = "CompositeReflectivity"
    /\ run_time_var = <<>>
    /\ fetch_button = "normal"
    /\ controls_state = "disabled"
    /\ progress_bar = Ratio(0, 1)
    /\ slider_to = 100
    /\ image_label = "prompt"
    /\ run_time_label = S_dashes
    /\ forecast_hour_label = S_dashes
    /\ valid_time_label = S_dashes
    /\ after_jobs = {}
    /\ warning_open = FALSE
    /\ thread = IdleThread
    /\ requests_log = <<>>
    /\ emitted = <<>>
    /\ loaded_hours = <<>>

\* lines 129 and 139
Call_generate_run_times ==
    /\ run_times = <<>>
    /\ run_times' = generate_run_times(now_utc)
    /\ run_time_var' = run_times'[1].key
    /\ UNCHANGED <<now_utc, playback, labels, model_var, region_var, param_var, widgets,
                   fetch_queue, after_jobs, warning_open, fetcher, loaded_hours>>

NextRunTimes == Call_generate_run_times

SpecRunTimes == InitRunTimes /\ [][NextRunTimes]_vars

\* the calendar day before the day of dt, at hour h
DayBefore(dt, h) ==
    IF dt.day > 1 THEN DateTime(dt.year, dt.month, dt.day - 1, h)
    ELSE IF dt.month > 1
         THEN DateTime(dt.year, dt.month - 1, DaysInMonth(dt.year, dt.month - 1), h)
         ELSE DateTime(dt.year - 1, 12, 31, h)

\* the run six hours before the run dt
SixHoursBefore(dt) ==
    IF dt.hour >= 6 THEN DateTime(dt.year, dt.month, dt.day, dt.hour - 6)
    ELSE DayBefore(dt, 18)

\* C17: generate_run_times returns 8 entries with distinct labels and distinct
\* keys; the first is the clock reading brought down to the 6-hour boundary,
\* each next one is the run 6 hours earlier, across ends of days, months and
\* years; every hour is 0, 6, 12 or 18; the label of the first entry alone
\* ends in " (Latest)".
C17_EightRunsSixHoursApart ==
    run_times # <<>> =>
        LET run(k) == StrpRunKey(run_times[k].value)
        IN  /\ Len(run_times) = 8
            /\ \A j, k \in 1..8 : j # k =>
                   /\ run_times[j].key # run_times[k].key
                   /\ run_times[j].value # run_times[k].value
            /\ \A k \in 1..8 :
                   /\ ~StrpRunKeyRaises(run_times[k].value)
                   /\ run(k).hour \in {0, 6, 12, 18}
                   /\ run_times[k].key =
                          StrfRunLabel(run(k)) \o (IF k = 1 THEN S_Latest ELSE <<>>)
                   /\ run_times[k].key[Len(run_times[k].key)] = (IF k = 1 THEN ")" ELSE "Z")
            /\ run(1) = DateTime(now_utc.year, now_utc.month, now_utc.day,
                                 6 * (now_utc.hour \div 6))
            /\ \A k \in 1..7 :
                   /\ run(k + 1) = SixHoursBefore(run(k))
                   /\ ToOrdinal(run(k).year, run(k).month, run(k).day) * 24 + run(k).hour
                        = ToOrdinal(run(k + 1).year, run(k + 1).month, run(k + 1).day) * 24
                            + run(k + 1).hour + 6

\* read on 1 March of a leap year at 05Z: the eighth run is 28 February 06Z
C17_Witness ==
    /\ now_utc = DateTime(2024, 3, 1, 5)
    /\ Len(run_times) = 8
    /\ run_times[1].value = <<"2", "0", "2", "4", "0", "3", "0", "1", "0", "0">>
    /\ run_times[8].value = <<"2", "0", "2", "4", "0", "2", "2", "8", "0", "6">>

\* C18: the run time display_frame computes with is the run key of the fetch
\* that produced the loaded frames: the frames are the files that fetch named
\* with that key, and the list and the run time change only together, when a
\* result event with frames is taken, to what that event carries.
C18_RunTimeBelongsToLoadedFrames ==
    [][/\ image_paths # <<>> =>
              image_paths = PathsOf(models[model_var], model_run_time, loaded_hours,
                                    parameters[param_var], regions[region_var])
       /\ image_paths' # image_paths \/ model_run_time' # model_run_time =>
              /\ TakesResultWithFrames
              /\ model_run_time' = Head(fetch_queue).run_time
              /\ image_paths' = Head(fetch_queue).paths]_vars

\* the frames of the second run are loaded, a fetch of the first run is in
\* flight, and the user has set the run menu back to the second run meanwhile
C18_Witness ==
    /\ image_paths # <<>>
    /\ model_run_time = run_times[2].value
    /\ thread.pc = "get"
    /\ thread.run_time = run_times[1].value
    /\ run_time_var = run_times[2].key

\* C19: whenever the animation is playing the playback controls, the play/pause
\* button among them, are enabled.
C19_PlayingImpliesControlsEnabled ==
    is_playing => controls_state = "normal"

\* C20: at most one animation tick is pending, and one is pending exactly when
\* is_playing is true; the pending tick is the one animation_job names.
C20_OneTickExactlyWhilePlaying ==
    /\ Cardinality(AnimateJobs(after_jobs)) <= 1
    /\ is_playing <=> AnimateJobs(after_jobs) # {}
    /\ \A job \in AnimateJobs(after_jobs) : job.id = animation_job

\* playing, with its one tick pending, while a fetch is in flight and polled
C20_Witness ==
    /\ is_playing
    /\ Cardinality(AnimateJobs(after_jobs)) = 1
    /\ PollJobs(after_jobs) # {}
    /\ thread.pc = "loop"
    /\ current_frame_index = Len(image_paths) - 1

====
